---- MODULE Spec2Model ----
(***************************************************************************)
(* Rendering scheduler of the editor view (src/vs/editor/browser/view.ts): *)
(* View._scheduleRender / View.dispose and the EditorRenderingCoordinator  *)
(* singleton that batches the renderings of all views into a frame         *)
(* callback made of four phases.                                           *)
(*                                                                         *)
(* The frame callback is synchronous in the code.  It is modelled as a     *)
(* sequence of steps (FrameFire, then BeginCall/EndCall per phase call) so *)
(* that the code a phase call runs (view parts, event handlers) can call   *)
(* back into scheduleRender() and dispose() while the callback is running. *)
(* Outside a phase call and outside a callback nothing else can run        *)
(* re-entrantly: JavaScript is single threaded.                            *)
(*                                                                         *)
(* Spec is the coordinator with several views and windows, the phase       *)
(* bodies left abstract.  SpecView is one view in one window with its view *)
(* parts: the phase bodies of _createCoordinatedRendering, the synchronous *)
(* render(true, _), calls on a disposed view and a repeated dispose().     *)
(***************************************************************************)
EXTENDS Integers, Sequences, FiniteSets, TLC

\* ------------------------------------------------------------------ bounds
NumViews == 2
NumWindows == 2
MaxRenderings == 3
NumParts == 2

Views == 1..NumViews
Windows == 1..NumWindows
Parts == 1..NumParts
Null == 0

\* The four phases of ICoordinatedRendering, in the order _onRenderScheduled runs them.
PrepareRenderText == 1
RenderText == 2
PrepareRender == 3
Render == 4
Returning == 5

VARIABLES
    coordinatedRenderings,  \* EditorRenderingCoordinator._coordinatedRenderings
    animationFrameRunners,  \* keys of EditorRenderingCoordinator._animationFrameRunners
    frameRequests,          \* per window: callbacks requested from the windowing system, not yet run or cancelled
    renderAnimationFrame,   \* View._renderAnimationFrame: Null or the id of the rendering its handle cancels
    isDisposed,             \* View._store.isDisposed
    nextId,                 \* identity of the next rendering object created (they are numbered as created)
    running,                \* a frame callback (_onRenderScheduled) is executing
    firedWindow,            \* the window whose runner is executing (Null when none)
    batch,                  \* local coordinatedRenderings of _onRenderScheduled
    datas,                  \* local datas of _onRenderScheduled: "none" (not yet set), "null" or "data"
    phase,                  \* which of the four loops is executing
    idx,                    \* loop index (1-based)
    inCall,                 \* a phase call of batch[idx] is on the stack
    trace,                  \* phase calls made by the running callback so far
    errorSink,              \* onUnexpectedError reports made on behalf of the latest phase call
    lastOutcome,            \* how the latest phase call ended: "none" (none yet, or still running), "ok", "null", "threw"
    cancelled,              \* ids of renderings removed from the pending list by their cancellation handle
    partDirty,              \* the view parts of TheView whose shouldRender() is true
    linesDirty,             \* TheView._viewLines.shouldRender()
    isConnected,            \* TheView.domNode.domNode.isConnected
    shouldRecomputeGlyphMarginLanes, \* TheView._shouldRecomputeGlyphMarginLanes
    dataParts,              \* viewParts of the data the running callback holds for TheView's rendering
    threwInFrame,           \* the parts of TheView that threw in a phase of the running callback,
                            \* where the specification keeps that record
    last                    \* what the latest step did at the level of TheView's parts (NoLast: nothing)

vars == <<coordinatedRenderings, animationFrameRunners, frameRequests, renderAnimationFrame,
          isDisposed, nextId, running, firedWindow, batch, datas, phase, idx,
          inCall, trace, errorSink, lastOutcome, cancelled,
          partDirty, linesDirty, isConnected, shouldRecomputeGlyphMarginLanes,
          dataParts, threwInFrame, last>>

coordVars == <<coordinatedRenderings, animationFrameRunners, frameRequests>>
viewVars == <<renderAnimationFrame, isDisposed, nextId>>
frameVars == <<running, firedWindow, batch, datas, phase, idx, inCall, trace, errorSink, lastOutcome>>
partVars == <<partDirty, linesDirty, isConnected, shouldRecomputeGlyphMarginLanes>>

\* The view whose parts are modelled in detail.
TheView == 1

\* Record of a step that called no view part, ran no phase body and raised nothing.
NoLast ==
    [op |-> "none", now |-> FALSE, everything |-> FALSE, live |-> TRUE, phases |-> <<>>,
     parts |-> <<>>, calls |-> <<>>, result |-> "none", raised |-> "none", reports |-> 0,
     notified |-> FALSE, scheduled |-> FALSE, collections |-> 0, computed |-> FALSE]

\* A step that only concerns the coordinator and the views' pending references.
NoPartStep ==
    /\ last' = NoLast
    /\ UNCHANGED partVars
    /\ UNCHANGED <<dataParts, threwInFrame>>

\* -------------------------------------------------------------- helpers
Ids(list) == {list[i].id : i \in 1..Len(list)}

IndexOf(list, id) ==
    IF id \in Ids(list) THEN CHOOSE i \in 1..Len(list) : list[i].id = id /\ \A j \in 1..(i-1) : list[j].id # id
    ELSE 0

Splice(list, i) == [k \in 1..(Len(list) - 1) |-> IF k < i THEN list[k] ELSE list[k + 1]]

\* ------------------------------------------------- windowing primitive
\* dom.runAtThisOrScheduleAtNextAnimationFrame(window, runner): one more callback is outstanding for the window.
RequestFrame(requests, w) == [requests EXCEPT ![w] = @ + 1]

\* Disposing the handle of an outstanding callback cancels it.
CancelFrame(requests, w) == [requests EXCEPT ![w] = IF @ > 0 THEN @ - 1 ELSE 0]

\* --------------------------------------------- EditorRenderingCoordinator
\* Variant of CoordinatorScheduleRender: a runner is requested without looking at the map.
CoordinatorScheduleRender_NoHas(runners, requests, w) ==
    [runners |-> runners \cup {w}, requests |-> RequestFrame(requests, w)]

\* Variant of CoordinatorScheduleRender: one runner serves all windows, so none is requested
\* while the map holds a runner for any window.
CoordinatorScheduleRender_AnyWindow(runners, requests, w) ==
    IF runners = {}
    THEN [runners |-> {w}, requests |-> RequestFrame(requests, w)]
    ELSE [runners |-> runners, requests |-> requests]

\* _scheduleRender(window): registers a runner unless the map already has one for the window.
CoordinatorScheduleRender(runners, requests, w) ==
    IF w \notin runners
    THEN [runners |-> runners \cup {w}, requests |-> RequestFrame(requests, w)]
    ELSE [runners |-> runners, requests |-> requests]

\* Variant of ScheduleCoordinatedRendering: unshift instead of push.
ScheduleCoordinatedRendering_Unshift(list, runners, requests, rendering) ==
    LET s == CoordinatorScheduleRender(runners, requests, rendering.window)
    IN [list |-> <<rendering>> \o list, runners |-> s.runners, requests |-> s.requests]

\* scheduleCoordinatedRendering(rendering): push, then _scheduleRender(rendering.window).
ScheduleCoordinatedRendering(list, runners, requests, rendering) ==
    LET s == CoordinatorScheduleRender(runners, requests, rendering.window)
    IN [list |-> Append(list, rendering), runners |-> s.runners, requests |-> s.requests]

RECURSIVE CancelAll(_, _)
CancelAll(requests, ws) ==
    IF ws = {} THEN requests
    ELSE LET w == CHOOSE x \in ws : TRUE IN CancelAll(CancelFrame(requests, w), ws \ {w})

\* Variant of CancelRendering: splice(renderingIndex) without a delete count, which removes
\* the rendering and everything after it.
CancelRendering_SpliceTail(list, runners, requests, id) ==
    LET renderingIndex == IndexOf(list, id) IN
    IF renderingIndex = 0
    THEN [list |-> list, runners |-> runners, requests |-> requests, removed |-> FALSE]
    ELSE LET rest == SubSeq(list, 1, renderingIndex - 1) IN
         IF Len(rest) = 0
         THEN [list |-> rest, runners |-> {}, requests |-> CancelAll(requests, runners), removed |-> TRUE]
         ELSE [list |-> rest, runners |-> runners, requests |-> requests, removed |-> TRUE]

\* Variant of CancelRendering: the animation frames are left alone when the list empties.
CancelRendering_KeepFrames(list, runners, requests, id) ==
    LET renderingIndex == IndexOf(list, id) IN
    IF renderingIndex = 0
    THEN [list |-> list, runners |-> runners, requests |-> requests, removed |-> FALSE]
    ELSE [list |-> Splice(list, renderingIndex), runners |-> runners, requests |-> requests,
          removed |-> TRUE]

\* Variant of CancelRendering: the frame of the rendering's own window is cancelled as soon
\* as no rendering of that window is left in the list.
CancelRendering_PerWindow(list, runners, requests, id) ==
    LET renderingIndex == IndexOf(list, id) IN
    IF renderingIndex = 0
    THEN [list |-> list, runners |-> runners, requests |-> requests, removed |-> FALSE]
    ELSE LET rest == Splice(list, renderingIndex)
             w == list[renderingIndex].window
         IN IF (\A k \in 1..Len(rest) : rest[k].window # w) /\ w \in runners
            THEN [list |-> rest, runners |-> runners \ {w}, requests |-> CancelFrame(requests, w),
                  removed |-> TRUE]
            ELSE [list |-> rest, runners |-> runners, requests |-> requests, removed |-> TRUE]

\* dispose() of the handle scheduleCoordinatedRendering returned for the rendering `id`.
CancelRendering(list, runners, requests, id) ==
    LET renderingIndex == IndexOf(list, id) IN
    IF renderingIndex = 0
    THEN [list |-> list, runners |-> runners, requests |-> requests, removed |-> FALSE]
    ELSE LET rest == Splice(list, renderingIndex) IN
         IF Len(rest) = 0
         THEN [list |-> rest, runners |-> {}, requests |-> CancelAll(requests, runners), removed |-> TRUE]
         ELSE [list |-> rest, runners |-> runners, requests |-> requests, removed |-> TRUE]

\* ---------------------------------------------------------------- Init
Init ==
    /\ coordinatedRenderings = <<>>
    /\ animationFrameRunners = {}
    /\ frameRequests = [w \in Windows |-> 0]
    /\ renderAnimationFrame = [v \in Views |-> Null]
    /\ isDisposed = [v \in Views |-> FALSE]
    /\ nextId = 1
    /\ running = FALSE
    /\ firedWindow = Null
    /\ batch = <<>>
    /\ datas = <<>>
    /\ phase = PrepareRenderText
    /\ idx = 1
    /\ inCall = FALSE
    /\ trace = <<>>
    /\ errorSink = 0
    /\ lastOutcome = "none"
    /\ cancelled = {}
    /\ partDirty = Parts
    /\ linesDirty = TRUE
    /\ isConnected = FALSE
    /\ shouldRecomputeGlyphMarginLanes = FALSE
    /\ dataParts = <<>>
    /\ threwInFrame = {}
    /\ last = NoLast

\* Windows the coordinator, the running callback or the windowing system refers to.
UsedWindows ==
    animationFrameRunners \cup {w \in Windows : frameRequests[w] > 0}
    \cup {coordinatedRenderings[i].window : i \in 1..Len(coordinatedRenderings)}
    \cup {batch[i].window : i \in 1..Len(batch)}

\* Windows are interchangeable. A view's root is in one of the windows referred to, or in
\* another window, which is then taken to be the lowest-numbered of the others.
WindowChoices ==
    UsedWindows \cup {w \in Windows \ UsedWindows : \A u \in Windows \ UsedWindows : w <= u}

\* Code outside the coordinator runs either at top level or inside a phase call.
CanRunCode == ~running \/ inCall

\* ---------------------------------------------------------------- View
\* View._scheduleRender() on a live view (handleEvents, the widget APIs, change, render(false, _)).
\* w is dom.getWindow(this.domNode.domNode), read at each call: the window the view's root
\* node is in at that moment.
\* Variant of NoRenderingPending: the pending reference is not consulted.
NoRenderingPending_Unchecked(handle) == TRUE

\* With a rendering already pending for the view the call does nothing.
NoRenderingPending(handle) == handle = Null

RegisterRendering(v, w) ==
    /\ CanRunCode
    /\ IF NoRenderingPending(renderAnimationFrame[v])
       THEN /\ nextId <= MaxRenderings
            /\ LET rendering == [id |-> nextId, view |-> v, window |-> w]
                   s == ScheduleCoordinatedRendering(coordinatedRenderings, animationFrameRunners,
                                                     frameRequests, rendering)
               IN /\ coordinatedRenderings' = s.list
                  /\ animationFrameRunners' = s.runners
                  /\ frameRequests' = s.requests
                  /\ renderAnimationFrame' = [renderAnimationFrame EXCEPT ![v] = rendering.id]
                  /\ nextId' = nextId + 1
       ELSE /\ UNCHANGED coordVars
            /\ UNCHANGED <<renderAnimationFrame, nextId>>
    /\ UNCHANGED <<isDisposed, cancelled>>
    /\ UNCHANGED frameVars

ScheduleRender(v, w) ==
    /\ ~isDisposed[v]
    /\ RegisterRendering(v, w)
    /\ NoPartStep

\* Variant of Dispose: the pending rendering's handle is dropped without being disposed.
Dispose_NoCancel(v) ==
    /\ CanRunCode
    /\ renderAnimationFrame' = [renderAnimationFrame EXCEPT ![v] = Null]
    /\ isDisposed' = [isDisposed EXCEPT ![v] = TRUE]
    /\ UNCHANGED <<nextId, cancelled>>
    /\ UNCHANGED coordVars
    /\ UNCHANGED frameVars
    /\ NoPartStep

\* View.dispose(): cancels the pending rendering, if any, and marks the store disposed.
DisposeView(v) ==
    /\ CanRunCode
    /\ LET c == IF renderAnimationFrame[v] # Null
                THEN CancelRendering(coordinatedRenderings, animationFrameRunners,
                                     frameRequests, renderAnimationFrame[v])
                ELSE [list |-> coordinatedRenderings, runners |-> animationFrameRunners,
                      requests |-> frameRequests, removed |-> FALSE]
       IN /\ coordinatedRenderings' = c.list
          /\ animationFrameRunners' = c.runners
          /\ frameRequests' = c.requests
          /\ cancelled' = IF c.removed THEN cancelled \cup {renderAnimationFrame[v]} ELSE cancelled
    /\ renderAnimationFrame' = [renderAnimationFrame EXCEPT ![v] = Null]
    /\ isDisposed' = [isDisposed EXCEPT ![v] = TRUE]
    /\ UNCHANGED <<nextId>>
    /\ UNCHANGED frameVars

Dispose(v) ==
    /\ DisposeView(v)
    /\ NoPartStep

\* ------------------------------------------------------ frame callback
\* Variant of SafeInvokeNoArg: no try/catch around the call.
SafeInvokeNoArg_NoCatch(sink, threw) == [sink |-> sink, rethrown |-> threw]

\* safeInvokeNoArg: a throw is caught, reported to onUnexpectedError once and yields null;
\* nothing is rethrown to the loop that made the call.
SafeInvokeNoArg(sink, threw) ==
    [sink |-> IF threw THEN sink + 1 ELSE sink, rethrown |-> FALSE]

\* Variant of RunnerDelete: the runner leaves its map entry in place.
RunnerDelete_Kept(runners, w) == runners

\* The runner's first statement: this._animationFrameRunners.delete(window).
RunnerDelete(runners, w) == runners \ {w}

\* Variant of SnapshotRenderings: the field is not reset, the callback works on the live list.
SnapshotRenderings_Shared(list, w) == [batch |-> list, list |-> list]

\* Variant of SnapshotRenderings: only the renderings of the window that fired are taken.
SnapshotRenderings_ByWindow(list, w) ==
    LET Mine(r) == r.window = w
        Others(r) == r.window # w
    IN [batch |-> SelectSeq(list, Mine), list |-> SelectSeq(list, Others)]

\* Variant of SnapshotRenderings: the whole list is called, and the renderings of the other
\* windows stay pending for their own frames.
SnapshotRenderings_OthersStay(list, w) ==
    LET Others(r) == r.window # w
    IN [batch |-> list, list |-> SelectSeq(list, Others)]

\* First two statements of _onRenderScheduled: slice(0) into the local, then reset the field.
\* w is the window whose runner fired; _onRenderScheduled is not told and takes the whole list.
SnapshotRenderings(list, w) == [batch |-> list, list |-> <<>>]

\* Variant of NextCall: one loop over the renderings running the four phases of each in turn.
\* (ph, i) with i > 1 says that phase ph of rendering i - 1 has just been done.
NextCall_PerRendering(ph, i, b, d) ==
    IF i = 1
    THEN IF Len(b) = 0 THEN [phase |-> Returning, idx |-> 1] ELSE [phase |-> PrepareRenderText, idx |-> 1]
    ELSE IF ph < Render /\ (ph < RenderText \/ d[i - 1] = "data")
         THEN [phase |-> ph + 1, idx |-> i - 1]
         ELSE IF i <= Len(b) THEN [phase |-> PrepareRenderText, idx |-> i]
              ELSE [phase |-> Returning, idx |-> 1]

\* Variant of NextCall: a loop that reaches the end of a non-empty batch starts over.
NextCall_Rescan(ph, i, b, d) ==
    IF ph > Render \/ Len(b) = 0 THEN [phase |-> Returning, idx |-> 1]
    ELSE [phase |-> ph, idx |-> IF i > Len(b) THEN 1 ELSE i]

\* Variant of NextCall: the last two loops do not skip the entries whose data is null.
RECURSIVE NextCall_NoSkip(_, _, _, _)
NextCall_NoSkip(ph, i, b, d) ==
    IF ph > Render THEN [phase |-> Returning, idx |-> 1]
    ELSE IF i > Len(b) THEN NextCall_NoSkip(ph + 1, 1, b, d)
    ELSE [phase |-> ph, idx |-> i]

\* Position of the next phase call at or after (ph, i): the four for-loops one after the
\* other, the last two skipping the entries whose data is null. Returning: past the last loop.
RECURSIVE NextCall(_, _, _, _)
NextCall(ph, i, b, d) ==
    IF ph > Render THEN [phase |-> Returning, idx |-> 1]
    ELSE IF i > Len(b) THEN NextCall(ph + 1, 1, b, d)
    ELSE IF ph >= PrepareRender /\ d[i] # "data" THEN NextCall(ph, i + 1, b, d)
    ELSE [phase |-> ph, idx |-> i]

MoveTo(pos) ==
    /\ phase' = pos.phase
    /\ idx' = pos.idx

\* Where the callback goes after a phase call: on to the next call, unless an exception
\* reached the loop, which ends _onRenderScheduled there and then.
AfterCall(invoked, pos) == IF invoked.rethrown THEN [phase |-> Returning, idx |-> 1] ELSE pos

\* The windowing system runs the callback requested for window w: the runner deletes its map
\* entry and enters _onRenderScheduled, which takes the snapshot and starts the first loop.
FrameFire(w) ==
    /\ ~running
    /\ frameRequests[w] > 0
    /\ running' = TRUE
    /\ frameRequests' = [frameRequests EXCEPT ![w] = @ - 1]
    /\ animationFrameRunners' = RunnerDelete(animationFrameRunners, w)
    /\ LET s == SnapshotRenderings(coordinatedRenderings, w)
           d == [i \in 1..Len(s.batch) |-> "none"]
       IN /\ coordinatedRenderings' = s.list
          /\ batch' = s.batch
          /\ datas' = d
          /\ MoveTo(NextCall(PrepareRenderText, 1, s.batch, d))
    /\ firedWindow' = w
    /\ inCall' = FALSE
    /\ trace' = <<>>
    /\ errorSink' = 0
    /\ lastOutcome' = "none"
    /\ UNCHANGED <<cancelled>>
    /\ UNCHANGED viewVars
    /\ NoPartStep

Call(p, ph) == [id |-> p.id, view |-> p.view, window |-> p.window, phase |-> ph]

\* Variant of WrapperThrows: only the prepareRenderText wrapper looks at the store.
WrapperThrows_FirstOnly(ph, disposed) == disposed /\ ph = PrepareRenderText

\* First statement of each of the four wrappers built by View._scheduleRender: a disposed
\* store makes the wrapper throw BugIndicatingError before it reaches the phase body.
WrapperThrows(ph, disposed) == disposed

\* safeInvokeNoArg(() => rendering.<phase>()): the wrapper built by View._scheduleRender is
\* entered. On a disposed view it throws BugIndicatingError at once, which safeInvokeNoArg
\* catches; otherwise the phase body starts running.
BeginCall ==
    /\ running
    /\ phase # Returning
    /\ ~inCall
    /\ LET p == batch[idx] IN
       IF WrapperThrows(phase, isDisposed[p.view])
       THEN /\ trace' = Append(trace, Call(p, phase))
            /\ lastOutcome' = "threw"
            /\ errorSink' = SafeInvokeNoArg(0, TRUE).sink
            /\ datas' = IF phase = RenderText THEN [datas EXCEPT ![idx] = "null"] ELSE datas
            /\ MoveTo(AfterCall(SafeInvokeNoArg(0, TRUE), NextCall(phase, idx + 1, batch, datas')))
            /\ inCall' = FALSE
       ELSE /\ trace' = Append(trace, Call(p, phase))
            /\ inCall' = TRUE
            /\ lastOutcome' = "none"
            /\ errorSink' = 0
            /\ UNCHANGED <<datas, phase, idx>>
    /\ UNCHANGED <<running, firedWindow, batch, cancelled>>
    /\ UNCHANGED coordVars
    /\ UNCHANGED viewVars
    /\ NoPartStep

\* Variant of ClearsPendingReference: the reference is reset when renderText is over.
ClearsPendingReference_AfterRenderText(ph, outcome) == ph = RenderText

\* Variant of ClearsPendingReference: no finally, the reference is reset only when
\* prepareRenderText returns.
ClearsPendingReference_OnReturn(ph, outcome) == ph = PrepareRenderText /\ outcome # "threw"

\* Whether the wrapper of phase ph resets this._renderAnimationFrame when its body is over:
\* the finally of the prepareRenderText wrapper does, however the body ended.
ClearsPendingReference(ph, outcome) == ph = PrepareRenderText

Outcomes(ph) == IF ph = RenderText THEN {"ok", "null", "threw"} ELSE {"ok", "threw"}

\* The phase body returns or throws. prepareRenderText's finally clears the view's pending
\* reference either way; renderText's result (data, null, or null for a throw) goes to datas.
EndPhaseCall(outcome) ==
    /\ running
    /\ inCall
    /\ outcome \in Outcomes(phase)
    /\ LET p == batch[idx] IN
       /\ lastOutcome' = outcome
       /\ errorSink' = SafeInvokeNoArg(errorSink, outcome = "threw").sink
       /\ renderAnimationFrame' = IF ClearsPendingReference(phase, outcome)
                                  THEN [renderAnimationFrame EXCEPT ![p.view] = Null]
                                  ELSE renderAnimationFrame
       /\ datas' = IF phase = RenderText
                   THEN [datas EXCEPT ![idx] = IF outcome = "ok" THEN "data" ELSE "null"]
                   ELSE datas
       /\ MoveTo(AfterCall(SafeInvokeNoArg(errorSink, outcome = "threw"),
                            NextCall(phase, idx + 1, batch, datas')))
    /\ inCall' = FALSE
    /\ UNCHANGED <<running, firedWindow, batch, trace, cancelled, isDisposed, nextId>>
    /\ UNCHANGED coordVars

EndCall(outcome) ==
    /\ EndPhaseCall(outcome)
    /\ NoPartStep

\* _onRenderScheduled returns to the windowing system; its locals are gone.
FrameReturn ==
    /\ running
    /\ phase = Returning
    /\ running' = FALSE
    /\ firedWindow' = Null
    /\ batch' = <<>>
    /\ datas' = <<>>
    /\ phase' = PrepareRenderText
    /\ idx' = 1
    /\ trace' = <<>>
    /\ errorSink' = 0
    /\ lastOutcome' = "none"
    /\ UNCHANGED <<inCall, cancelled>>
    /\ UNCHANGED coordVars
    /\ UNCHANGED viewVars
    /\ last' = NoLast
    /\ dataParts' = <<>>
    /\ threwInFrame' = {}
    /\ UNCHANGED partVars

Next ==
    \/ \E v \in Views, w \in WindowChoices : ScheduleRender(v, w)
    \/ \E v \in Views : Dispose(v)
    \/ \E w \in Windows : FrameFire(w)
    \/ BeginCall
    \/ FrameReturn
    \/ \E o \in {"ok", "null", "threw"} : EndCall(o)

Spec == Init /\ [][Next]_vars

\* The scheduling the code relies on: an outstanding frame callback is eventually run by the
\* windowing system, and a running callback goes on to its end, every wrapper being entered
\* and every phase body returning or throwing.
Fairness ==
    /\ WF_vars(\E w \in Windows : FrameFire(w))
    /\ WF_vars(BeginCall)
    /\ WF_vars(\E o \in {"ok", "null", "threw"} : EndCall(o))
    /\ WF_vars(FrameReturn)

\* The steps of the fair specification: those of Next, with one rendering fewer registered
\* over a behaviour.
NextFair ==
    \/ \E v \in Views, w \in WindowChoices : nextId < MaxRenderings /\ ScheduleRender(v, w)
    \/ \E v \in Views : Dispose(v)
    \/ \E w \in Windows : FrameFire(w)
    \/ BeginCall
    \/ FrameReturn
    \/ \E o \in {"ok", "null", "threw"} : EndCall(o)

SpecFair == Init /\ [][NextFair]_vars /\ Fairness

\* ------------------------------------------------ the parts of one view
\* The view lines (this._viewLines) in the record of a call; the view parts are 1..NumParts,
\* in the order of this._viewParts.
ViewLines == 0

PartCall(m, p) == [m |-> m, p |-> p]

\* The parts whose prepareRender (or render) throws when called during one phase: none, or
\* one of the parts called.
Throwing(called) == {{}} \cup {{p} : p \in called}

\* The parts a rendering of the view lines can make dirty: any of those that are clean. None
\* when the view lines are not rendered.
Scrolled(connected, lines, dirty) == IF connected /\ lines THEN SUBSET (Parts \ dirty) ELSE {{}}

\* Whether this._viewLines.renderText can throw: only when it is called.
LinesThrow(connected, lines) == IF connected /\ lines THEN BOOLEAN ELSE {FALSE}

RECURSIVE PartsFrom(_, _)
PartsFrom(dirty, p) ==
    IF p > NumParts THEN <<>>
    ELSE (IF p \in dirty THEN <<p>> ELSE <<>>) \o PartsFrom(dirty, p + 1)

\* _getViewPartsToRender(): the parts whose shouldRender() is true, in list order.
GetViewPartsToRender(dirty) == PartsFrom(dirty, 1)

\* Variant of PrepareRenderTextBody: the flag is left as it is.
PrepareRenderTextBody_KeepsFlag(recompute) == [recompute |-> recompute, computed |-> recompute]

\* prepareRenderText of _createCoordinatedRendering: the glyph margin lanes are recomputed
\* when the flag asks for it, and the flag is cleared.
PrepareRenderTextBody(recompute) == [recompute |-> FALSE, computed |-> recompute]

\* Variant of RenderTextBody: isConnected is not consulted.
RenderTextBody_NoConnectedCheck(connected, lines, dirty, scrolled, linesThrow) ==
    IF ~lines /\ GetViewPartsToRender(dirty) = <<>>
    THEN [outcome |-> "null", parts |-> <<>>, lines |-> lines, dirty |-> dirty, calls |-> <<>>,
          collections |-> 1]
    ELSE IF lines
         THEN IF linesThrow
              THEN [outcome |-> "threw", parts |-> <<>>, lines |-> lines, dirty |-> dirty,
                    calls |-> <<PartCall("renderText", ViewLines)>>, collections |-> 1]
              ELSE [outcome |-> "ok", parts |-> GetViewPartsToRender(dirty \cup scrolled),
                    lines |-> FALSE, dirty |-> dirty \cup scrolled,
                    calls |-> <<PartCall("renderText", ViewLines), PartCall("onDidRender", ViewLines)>>,
                    collections |-> 2]
         ELSE [outcome |-> "ok", parts |-> GetViewPartsToRender(dirty), lines |-> lines,
               dirty |-> dirty, calls |-> <<>>, collections |-> 1]

\* Variant of RenderTextBody: no early return when nothing is dirty.
RenderTextBody_NoCleanCheck(connected, lines, dirty, scrolled, linesThrow) ==
    IF ~connected
    THEN [outcome |-> "null", parts |-> <<>>, lines |-> lines, dirty |-> dirty, calls |-> <<>>,
          collections |-> 0]
    ELSE IF lines
         THEN IF linesThrow
              THEN [outcome |-> "threw", parts |-> <<>>, lines |-> lines, dirty |-> dirty,
                    calls |-> <<PartCall("renderText", ViewLines)>>, collections |-> 1]
              ELSE [outcome |-> "ok", parts |-> GetViewPartsToRender(dirty \cup scrolled),
                    lines |-> FALSE, dirty |-> dirty \cup scrolled,
                    calls |-> <<PartCall("renderText", ViewLines), PartCall("onDidRender", ViewLines)>>,
                    collections |-> 2]
         ELSE [outcome |-> "ok", parts |-> GetViewPartsToRender(dirty), lines |-> lines,
               dirty |-> dirty, calls |-> <<>>, collections |-> 1]

\* Variant of RenderTextBody: the parts collected before the view lines were rendered are
\* handed on.
RenderTextBody_NoRecollect(connected, lines, dirty, scrolled, linesThrow) ==
    IF ~connected
    THEN [outcome |-> "null", parts |-> <<>>, lines |-> lines, dirty |-> dirty, calls |-> <<>>,
          collections |-> 0]
    ELSE IF ~lines /\ GetViewPartsToRender(dirty) = <<>>
    THEN [outcome |-> "null", parts |-> <<>>, lines |-> lines, dirty |-> dirty, calls |-> <<>>,
          collections |-> 1]
    ELSE IF lines /\ linesThrow
    THEN [outcome |-> "threw", parts |-> <<>>, lines |-> lines, dirty |-> dirty,
          calls |-> <<PartCall("renderText", ViewLines)>>, collections |-> 1]
    ELSE [outcome |-> "ok", parts |-> GetViewPartsToRender(dirty), lines |-> FALSE,
          dirty |-> IF lines THEN dirty \cup scrolled ELSE dirty,
          calls |-> IF lines
                    THEN <<PartCall("renderText", ViewLines), PartCall("onDidRender", ViewLines)>>
                    ELSE <<>>,
          collections |-> 1]

\* renderText of _createCoordinatedRendering. null for a detached root and when nothing is
\* dirty; otherwise the view lines, if dirty, are rendered and marked clean, which may make
\* the parts in `scrolled` dirty (scroll events), and the parts to render are collected.
\* linesThrow: this._viewLines.renderText throws.
RenderTextBody(connected, lines, dirty, scrolled, linesThrow) ==
    IF ~connected
    THEN [outcome |-> "null", parts |-> <<>>, lines |-> lines, dirty |-> dirty, calls |-> <<>>,
          collections |-> 0]
    ELSE IF ~lines /\ GetViewPartsToRender(dirty) = <<>>
    THEN [outcome |-> "null", parts |-> <<>>, lines |-> lines, dirty |-> dirty, calls |-> <<>>,
          collections |-> 1]
    ELSE IF lines
         THEN IF linesThrow
              THEN [outcome |-> "threw", parts |-> <<>>, lines |-> lines, dirty |-> dirty,
                    calls |-> <<PartCall("renderText", ViewLines)>>, collections |-> 1]
              ELSE [outcome |-> "ok", parts |-> GetViewPartsToRender(dirty \cup scrolled),
                    lines |-> FALSE, dirty |-> dirty \cup scrolled,
                    calls |-> <<PartCall("renderText", ViewLines), PartCall("onDidRender", ViewLines)>>,
                    collections |-> 2]
         ELSE [outcome |-> "ok", parts |-> GetViewPartsToRender(dirty), lines |-> lines,
               dirty |-> dirty, calls |-> <<>>, collections |-> 1]

\* The parts renderText hands to the two later phases.
Collected(connected, lines, dirty, scrolled, linesThrow) ==
    LET r == RenderTextBody(connected, lines, dirty, scrolled, linesThrow)
    IN {r.parts[i] : i \in 1..Len(r.parts)}

\* prepareRender of _createCoordinatedRendering: one loop over the parts with no try/catch
\* inside it; the first part whose prepareRender throws (those in `throwing`) ends the loop.
RECURSIVE PrepareRenderLoop(_, _, _)
PrepareRenderLoop(parts, i, throwing) ==
    IF i > Len(parts) THEN [calls |-> <<>>, threw |-> FALSE]
    ELSE IF parts[i] \in throwing
         THEN [calls |-> <<PartCall("prepareRender", parts[i])>>, threw |-> TRUE]
         ELSE LET r == PrepareRenderLoop(parts, i + 1, throwing)
              IN [calls |-> <<PartCall("prepareRender", parts[i])>> \o r.calls, threw |-> r.threw]

PrepareRenderBody(parts, throwing) == PrepareRenderLoop(parts, 1, throwing)

\* render of _createCoordinatedRendering: render() then onDidRender() for each part, the
\* latter making the part clean; the first render() that throws ends the loop.
RECURSIVE RenderLoop(_, _, _, _)
RenderLoop(parts, i, dirty, throwing) ==
    IF i > Len(parts) THEN [calls |-> <<>>, threw |-> FALSE, dirty |-> dirty]
    ELSE IF parts[i] \in throwing
         THEN [calls |-> <<PartCall("render", parts[i])>>, threw |-> TRUE, dirty |-> dirty]
         ELSE LET r == RenderLoop(parts, i + 1, dirty \ {parts[i]}, throwing)
              IN [calls |-> <<PartCall("render", parts[i]), PartCall("onDidRender", parts[i])>> \o r.calls,
                  threw |-> r.threw, dirty |-> r.dirty]

RenderBody(parts, dirty, throwing) == RenderLoop(parts, 1, dirty, throwing)

\* Variant of FlushAccumulatedAndRenderNow: one try/catch around the last two phases, so that
\* a throw in prepareRender skips render.
FlushAccumulatedAndRenderNow_StopsAtThrow(connected, lines, dirty, recompute, scrolled, linesThrow, throwing3, throwing4) ==
    LET t == PrepareRenderTextBody(recompute)
        r == RenderTextBody(connected, lines, dirty, scrolled, linesThrow)
        s2 == SafeInvokeNoArg(0, r.outcome = "threw").sink
        p == PrepareRenderBody(r.parts, throwing3)
        s3 == SafeInvokeNoArg(s2, p.threw).sink
        q == RenderBody(r.parts, r.dirty, throwing4)
        s4 == SafeInvokeNoArg(s3, q.threw).sink
    IN IF r.outcome = "ok" /\ ~p.threw
       THEN [phases |-> <<PrepareRenderText, RenderText, PrepareRender, Render>>,
             parts |-> r.parts, calls |-> r.calls \o p.calls \o q.calls, result |-> r.outcome,
             reports |-> s4, lines |-> r.lines, dirty |-> q.dirty, recompute |-> t.recompute,
             collections |-> r.collections, computed |-> t.computed]
       ELSE IF r.outcome = "ok"
       THEN [phases |-> <<PrepareRenderText, RenderText, PrepareRender>>,
             parts |-> r.parts, calls |-> r.calls \o p.calls, result |-> r.outcome,
             reports |-> s3, lines |-> r.lines, dirty |-> r.dirty, recompute |-> t.recompute,
             collections |-> r.collections, computed |-> t.computed]
       ELSE [phases |-> <<PrepareRenderText, RenderText>>, parts |-> r.parts, calls |-> r.calls,
             result |-> r.outcome, reports |-> s2, lines |-> r.lines, dirty |-> r.dirty,
             recompute |-> t.recompute, collections |-> r.collections, computed |-> t.computed]

\* _flushAccumulatedAndRenderNow(): the four phases of a fresh rendering object, each under
\* safeInvokeNoArg, the last two only when renderText returned data. No disposed check, and
\* neither the coordinator nor _renderAnimationFrame is involved.
FlushAccumulatedAndRenderNow(connected, lines, dirty, recompute, scrolled, linesThrow, throwing3, throwing4) ==
    LET t == PrepareRenderTextBody(recompute)
        r == RenderTextBody(connected, lines, dirty, scrolled, linesThrow)
        s2 == SafeInvokeNoArg(0, r.outcome = "threw").sink
    IN IF r.outcome = "ok"
       THEN LET p == PrepareRenderBody(r.parts, throwing3)
                s3 == SafeInvokeNoArg(s2, p.threw).sink
                q == RenderBody(r.parts, r.dirty, throwing4)
                s4 == SafeInvokeNoArg(s3, q.threw).sink
            IN [phases |-> <<PrepareRenderText, RenderText, PrepareRender, Render>>,
                parts |-> r.parts, calls |-> r.calls \o p.calls \o q.calls, result |-> r.outcome,
                reports |-> s4, lines |-> r.lines, dirty |-> q.dirty, recompute |-> t.recompute,
                collections |-> r.collections, computed |-> t.computed]
       ELSE [phases |-> <<PrepareRenderText, RenderText>>, parts |-> r.parts, calls |-> r.calls,
             result |-> r.outcome, reports |-> s2, lines |-> r.lines, dirty |-> r.dirty,
             recompute |-> t.recompute, collections |-> r.collections, computed |-> t.computed]

\* Variant of ScheduleRenderRaises: no disposed check.
ScheduleRenderRaises_Never(disposed) == "none"

\* First statement of View._scheduleRender(): a disposed store is a fatal error.
ScheduleRenderRaises(disposed) == IF disposed THEN "BugIndicatingError" ELSE "none"

\* The window TheView's root node is in, or was last in: the view is not moved between windows.
TheWindow == 1

\* View._scheduleRender() of TheView, whatever its state.
ViewScheduleRender(w) ==
    IF ScheduleRenderRaises(isDisposed[TheView]) # "none"
    THEN /\ CanRunCode
         /\ UNCHANGED coordVars
         /\ UNCHANGED viewVars
         /\ UNCHANGED frameVars
         /\ UNCHANGED cancelled
    ELSE RegisterRendering(TheView, w)

\* What a call that ends in _scheduleRender() leaves in `last`.
Scheduled(op, everything) ==
    [NoLast EXCEPT !.op = op, !.everything = everything, !.live = ~isDisposed[TheView],
                   !.raised = ScheduleRenderRaises(isDisposed[TheView]), !.scheduled = TRUE]

\* Variant of HandleEvents: _scheduleRender() is called only for events the view itself
\* reacts to.
HandleEvents_OnlyIfAffected(affectsGlyphMargin) ==
    /\ CanRunCode
    /\ shouldRecomputeGlyphMarginLanes' = (shouldRecomputeGlyphMarginLanes \/ affectsGlyphMargin)
    /\ IF affectsGlyphMargin
       THEN ViewScheduleRender(TheWindow)
       ELSE UNCHANGED <<coordVars, viewVars, frameVars, cancelled>>
    /\ last' = [Scheduled("handleEvents", FALSE) EXCEPT
                   !.raised = IF affectsGlyphMargin THEN @ ELSE "none",
                   !.scheduled = affectsGlyphMargin]
    /\ UNCHANGED <<partDirty, linesDirty, isConnected, dataParts, threwInFrame>>

\* View.handleEvents(events): the view's own handlers run (onDecorationsChanged raises the
\* glyph margin flag), then _scheduleRender().
HandleEvents(affectsGlyphMargin) ==
    /\ shouldRecomputeGlyphMarginLanes' = (shouldRecomputeGlyphMarginLanes \/ affectsGlyphMargin)
    /\ ViewScheduleRender(TheWindow)
    /\ last' = Scheduled("handleEvents", FALSE)
    /\ UNCHANGED <<partDirty, linesDirty, isConnected, dataParts, threwInFrame>>

\* View.layoutOverlayWidget(widgetData): _scheduleRender() only when the position changed.
LayoutOverlayWidget(shouldRender) ==
    /\ CanRunCode
    /\ IF shouldRender
       THEN ViewScheduleRender(TheWindow)
       ELSE UNCHANGED <<coordVars, viewVars, frameVars, cancelled>>
    /\ last' = [Scheduled("layoutOverlayWidget", FALSE) EXCEPT
                   !.raised = IF shouldRender THEN @ ELSE "none",
                   !.scheduled = shouldRender]
    /\ UNCHANGED partVars
    /\ UNCHANGED <<dataParts, threwInFrame>>

\* The other widget APIs of the view.
WidgetApis ==
    {"addContentWidget", "layoutContentWidget", "removeContentWidget",
     "addOverlayWidget", "removeOverlayWidget",
     "addGlyphMarginWidget", "layoutGlyphMarginWidget", "removeGlyphMarginWidget"}

\* Variant of CallsScheduleRender: every widget API ends in _scheduleRender().
CallsScheduleRender_Always(api, shouldRender) == TRUE

\* Whether the API reaches a _scheduleRender() call. shouldRender: what setWidgetPosition
\* returned. layoutGlyphMarginWidget calls it only inside if (shouldRender); the others
\* (add*, remove*, layoutContentWidget) call it as their last statement.
CallsScheduleRender(api, shouldRender) == api # "layoutGlyphMarginWidget" \/ shouldRender

\* Whether the API sets _shouldRecomputeGlyphMarginLanes, which it does before it calls
\* _scheduleRender().
RaisesRecomputeFlag(api, shouldRender) ==
    \/ api \in {"addGlyphMarginWidget", "removeGlyphMarginWidget"}
    \/ api = "layoutGlyphMarginWidget" /\ shouldRender

\* One of the widget APIs other than layoutOverlayWidget is called on TheView.
WidgetApi(api, shouldRender) ==
    /\ CanRunCode
    /\ shouldRecomputeGlyphMarginLanes' =
           (shouldRecomputeGlyphMarginLanes \/ RaisesRecomputeFlag(api, shouldRender))
    /\ IF CallsScheduleRender(api, shouldRender)
       THEN ViewScheduleRender(TheWindow)
       ELSE UNCHANGED <<coordVars, viewVars, frameVars, cancelled>>
    /\ last' = [Scheduled(api, FALSE) EXCEPT
                   !.raised = IF CallsScheduleRender(api, shouldRender) THEN @ ELSE "none",
                   !.scheduled = CallsScheduleRender(api, shouldRender)]
    /\ UNCHANGED <<partDirty, linesDirty, isConnected, dataParts, threwInFrame>>

\* Variant of ForceShouldRender: `everything` is ignored.
ForceShouldRender_Ignored(everything, dirty) == dirty

\* First statement of render(now, everything): with `everything`, forceShouldRender() on
\* every view part (and on the view lines).
ForceShouldRender(everything, dirty) == IF everything THEN Parts ELSE dirty

\* Whether the scroll events of a rendering of the view lines reach View.handleEvents, which
\* the view registered with the context (addEventHandler) until it is disposed: they do when
\* they reached a view part, and they may when they made no part dirty.
Notified(outcome, scrolled, disposed) ==
    IF outcome # "ok" \/ disposed THEN {FALSE}
    ELSE IF scrolled # {} THEN {TRUE}
    ELSE BOOLEAN

\* The synchronous flush as render(now, everything) runs it, and what it leaves in `last`.
\* The flush itself does not touch the coordinator; the handleEvents call its text rendering
\* can cause ends in _scheduleRender() as every handleEvents call does.
FlushNow(now, everything) ==
    /\ \E scrolled \in Scrolled(isConnected, everything \/ linesDirty, ForceShouldRender(everything, partDirty)),
          linesThrow \in LinesThrow(isConnected, everything \/ linesDirty) :
          \E throwing3, throwing4 \in Throwing(Collected(isConnected, everything \/ linesDirty,
                                          ForceShouldRender(everything, partDirty), scrolled, linesThrow)) :
             \E f \in {FlushAccumulatedAndRenderNow(isConnected, everything \/ linesDirty,
                          ForceShouldRender(everything, partDirty),
                          shouldRecomputeGlyphMarginLanes, scrolled, linesThrow, throwing3, throwing4)} :
                \E n \in Notified(IF everything \/ linesDirty THEN f.result ELSE "none", scrolled,
                                  isDisposed[TheView]) :
                   /\ partDirty' = f.dirty
                   /\ linesDirty' = f.lines
                   /\ shouldRecomputeGlyphMarginLanes' = f.recompute
                   /\ last' = [op |-> "render", now |-> now, everything |-> everything,
                               live |-> ~isDisposed[TheView], phases |-> f.phases, parts |-> f.parts,
                               calls |-> f.calls, result |-> f.result, raised |-> "none",
                               reports |-> f.reports, notified |-> n,
                               scheduled |-> FALSE, collections |-> f.collections,
                               computed |-> f.computed]
    /\ IF last'.notified
       THEN RegisterRendering(TheView, TheWindow)
       ELSE UNCHANGED <<coordVars, viewVars, frameVars, cancelled>>

\* Variant of ViewRender: render(false, _) renders at once like render(true, _).
ViewRender_AlwaysNow(now, everything) ==
    /\ CanRunCode
    /\ FlushNow(now, everything)
    /\ UNCHANGED <<isConnected, dataParts, threwInFrame>>

\* Variant of ViewRender: render(true, _) starts by dropping the view's pending rendering as
\* dispose() does.
ViewRender_DropsPending(now, everything) ==
    /\ CanRunCode
    /\ IF now
       THEN /\ DisposeView(TheView)
            /\ last' = [NoLast EXCEPT !.op = "render", !.now = TRUE, !.everything = everything]
            /\ UNCHANGED partVars
       ELSE /\ partDirty' = ForceShouldRender(everything, partDirty)
            /\ linesDirty' = (everything \/ linesDirty)
            /\ ViewScheduleRender(TheWindow)
            /\ last' = Scheduled("render", everything)
            /\ UNCHANGED <<shouldRecomputeGlyphMarginLanes, isConnected>>
    /\ UNCHANGED <<dataParts, threwInFrame>>

\* View.render(now, everything): with `everything` the view lines and every part are forced
\* dirty; then either the synchronous flush or _scheduleRender().
ViewRender(now, everything) ==
    /\ CanRunCode
    /\ IF now
       THEN FlushNow(now, everything)
       ELSE /\ partDirty' = ForceShouldRender(everything, partDirty)
            /\ linesDirty' = (everything \/ linesDirty)
            /\ ViewScheduleRender(TheWindow)
            /\ last' = Scheduled("render", everything)
            /\ UNCHANGED shouldRecomputeGlyphMarginLanes
    /\ UNCHANGED <<isConnected, dataParts, threwInFrame>>

\* The dispose() calls View.dispose() makes: this._viewLines.dispose(), then
\* viewPart.dispose() for every part of this._viewParts.
DisposeCalls == <<PartCall("dispose", ViewLines)>> \o [p \in Parts |-> PartCall("dispose", p)]

\* View.dispose() of TheView with what it does to its parts, which is the same on every call.
ViewDispose ==
    /\ DisposeView(TheView)
    /\ last' = [NoLast EXCEPT !.op = "dispose", !.live = ~isDisposed[TheView],
                              !.calls = DisposeCalls]
    /\ UNCHANGED partVars
    /\ UNCHANGED <<dataParts, threwInFrame>>

\* The root node is put into or taken out of a document.
SetConnected(connected) ==
    /\ CanRunCode
    /\ isConnected # connected
    /\ isConnected' = connected
    /\ last' = NoLast
    /\ UNCHANGED <<partDirty, linesDirty, shouldRecomputeGlyphMarginLanes, dataParts, threwInFrame>>
    /\ UNCHANGED <<coordVars, viewVars, frameVars, cancelled>>

\* A view part of a live view handles an event and wants to be rendered.
PartInvalidated(p) ==
    /\ CanRunCode
    /\ ~isDisposed[TheView]
    /\ p \notin partDirty
    /\ partDirty' = partDirty \cup {p}
    /\ last' = NoLast
    /\ UNCHANGED <<linesDirty, isConnected, shouldRecomputeGlyphMarginLanes, dataParts, threwInFrame>>
    /\ UNCHANGED <<coordVars, viewVars, frameVars, cancelled>>

\* The view lines of a live view handle an event and want to be rendered.
LinesInvalidated ==
    /\ CanRunCode
    /\ ~isDisposed[TheView]
    /\ ~linesDirty
    /\ linesDirty' = TRUE
    /\ last' = NoLast
    /\ UNCHANGED <<partDirty, isConnected, shouldRecomputeGlyphMarginLanes, dataParts, threwInFrame>>
    /\ UNCHANGED <<coordVars, viewVars, frameVars, cancelled>>

\* The part whose call ended a loop by throwing: the one called last.
Thrower(r) == IF r.threw THEN {r.calls[Len(r.calls)].p} ELSE {}

\* What the phase body of TheView's rendering does when it runs to its end inside the frame
\* callback.
PhaseBody(ph, scrolled, linesThrow, throwing) ==
    IF ph = PrepareRenderText
    THEN [outcome |-> "ok", parts |-> dataParts, calls |-> <<>>, lines |-> linesDirty,
          thrown |-> {}, collections |-> 0,
          computed |-> PrepareRenderTextBody(shouldRecomputeGlyphMarginLanes).computed,
          dirty |-> partDirty,
          recompute |-> PrepareRenderTextBody(shouldRecomputeGlyphMarginLanes).recompute]
    ELSE IF ph = RenderText
    THEN LET r == RenderTextBody(isConnected, linesDirty, partDirty, scrolled, linesThrow)
         IN [outcome |-> r.outcome, parts |-> r.parts, calls |-> r.calls, lines |-> r.lines,
             thrown |-> {}, collections |-> r.collections, computed |-> FALSE,
             dirty |-> r.dirty, recompute |-> shouldRecomputeGlyphMarginLanes]
    ELSE IF ph = PrepareRender
    THEN LET r == PrepareRenderBody(dataParts, throwing)
         IN [outcome |-> IF r.threw THEN "threw" ELSE "ok", parts |-> dataParts, calls |-> r.calls,
             thrown |-> Thrower(r), collections |-> 0, computed |-> FALSE,
             lines |-> linesDirty, dirty |-> partDirty, recompute |-> shouldRecomputeGlyphMarginLanes]
    ELSE LET r == RenderBody(dataParts, partDirty, throwing)
         IN [outcome |-> IF r.threw THEN "threw" ELSE "ok", parts |-> dataParts, calls |-> r.calls,
             thrown |-> Thrower(r), collections |-> 0, computed |-> FALSE,
             lines |-> linesDirty, dirty |-> r.dirty, recompute |-> shouldRecomputeGlyphMarginLanes]

\* The phase body of TheView's rendering runs to its end inside the frame callback. With
\* `recorded` the parts that threw are added to threwInFrame.
ViewPhaseEnd(recorded) ==
    /\ running
    /\ inCall
    /\ \E scrolled \in (IF phase = RenderText THEN Scrolled(isConnected, linesDirty, partDirty) ELSE {{}}),
          linesThrow \in (IF phase = RenderText THEN LinesThrow(isConnected, linesDirty) ELSE {FALSE}),
          throwing \in (IF phase >= PrepareRender THEN Throwing({dataParts[i] : i \in 1..Len(dataParts)}) ELSE {{}}) :
          \E b \in {PhaseBody(phase, scrolled, linesThrow, throwing)} :
             /\ EndPhaseCall(b.outcome)
             /\ partDirty' = b.dirty
             /\ linesDirty' = b.lines
             /\ shouldRecomputeGlyphMarginLanes' = b.recompute
             /\ dataParts' = b.parts
             /\ threwInFrame' = (IF recorded THEN threwInFrame \cup b.thrown ELSE threwInFrame)
             /\ last' = [op |-> "phase", now |-> FALSE, everything |-> FALSE, live |-> TRUE,
                         phases |-> <<phase>>, parts |-> b.parts, calls |-> b.calls,
                         result |-> b.outcome, raised |-> "none",
                         reports |-> SafeInvokeNoArg(0, b.outcome = "threw").sink,
                         notified |-> FALSE, scheduled |-> FALSE,
                         collections |-> b.collections, computed |-> b.computed]
    /\ UNCHANGED <<isConnected>>

ViewEndCall == ViewPhaseEnd(FALSE)

NextView ==
    \/ \E a \in BOOLEAN : HandleEvents(a)
    \/ \E s \in BOOLEAN : LayoutOverlayWidget(s)
    \/ \E now, everything \in BOOLEAN : ViewRender(now, everything)
    \/ ViewDispose
    \/ \E c \in BOOLEAN : SetConnected(c)
    \/ \E p \in Parts : PartInvalidated(p)
    \/ LinesInvalidated
    \/ FrameFire(TheWindow)
    \/ BeginCall
    \/ ViewEndCall
    \/ FrameReturn

SpecView == Init /\ [][NextView]_vars

\* What setWidgetPosition can return to the API: only layoutGlyphMarginWidget reads it.
PositionChanged(api) == IF api = "layoutGlyphMarginWidget" THEN BOOLEAN ELSE {TRUE}

\* The view's scheduling entry points with the glyph margin flag: the widget APIs,
\* handleEvents, render and dispose of a view whose root is never attached, and the frames
\* they cause.
NextApi ==
    \/ \E api \in WidgetApis : \E s \in PositionChanged(api) : WidgetApi(api, s)
    \/ \E s \in BOOLEAN : LayoutOverlayWidget(s)
    \/ \E a \in BOOLEAN : HandleEvents(a)
    \/ \E now, everything \in BOOLEAN : ViewRender(now, everything)
    \/ ViewDispose
    \/ FrameFire(TheWindow)
    \/ BeginCall
    \/ ViewEndCall
    \/ FrameReturn

SpecApi == Init /\ [][NextApi]_vars


\* ------------------------------------------------------------- claims
TraceIdx == 1..Len(trace)
BatchIdx == 1..Len(batch)
PendingIdx == 1..Len(coordinatedRenderings)

\* Rendering b of the batch is due a call of phase ph: always for the two text phases, and
\* for the two later ones when its renderText produced data.
Due(b, ph) == ph <= RenderText \/ datas[b] = "data"

Received(b, ph, before) ==
    \E i \in TraceIdx : i < before /\ trace[i].id = batch[b].id /\ trace[i].phase = ph

\* C1: within one frame callback the phase calls are globally ordered: the calls are made
\* phase by phase, and when a call of some phase is made every rendering of the batch has
\* already had the calls of all earlier phases it is due (prepareRenderText for all before
\* any renderText, renderText for all before any prepareRender, prepareRender before any render).
C1_PhaseOrdering ==
    /\ \A i, j \in TraceIdx : i < j => trace[i].phase <= trace[j].phase
    /\ \A j \in TraceIdx : \A ph \in 1..(trace[j].phase - 1) : \A b \in BatchIdx :
           Due(b, ph) => Received(b, ph, j)

\* C1 witness: a callback with two renderings went through all four phases for both.
C1_Witness ==
    /\ running /\ phase = Returning
    /\ Len(batch) = 2 /\ Len(trace) = 8

\* C2: a view never has more than one rendering in the pending list nor in a batch, however
\* often scheduleRender() is called; while its rendering is pending exactly one frame callback
\* is outstanding for the rendering's window, and the view's pending reference names it.
C2_ScheduleIdempotent ==
    /\ \A i, j \in PendingIdx :
           coordinatedRenderings[i].view = coordinatedRenderings[j].view => i = j
    /\ \A i, j \in BatchIdx : batch[i].view = batch[j].view => i = j
    /\ \A i \in PendingIdx :
           /\ frameRequests[coordinatedRenderings[i].window] = 1
           /\ renderAnimationFrame[coordinatedRenderings[i].view] = coordinatedRenderings[i].id

\* C2 witness: both views have a rendering pending for the same window, with one frame requested.
C2_Witness ==
    /\ ~running
    /\ Len(coordinatedRenderings) = 2
    /\ coordinatedRenderings[1].window = coordinatedRenderings[2].window
    /\ frameRequests[coordinatedRenderings[1].window] = 1

\* C3: the renderings called in a callback are those of its batch, the pending list as it
\* was when the callback fired; a rendering registered while the callback runs is not in the
\* batch, gets no call in it, and stays pending with a frame outstanding for its window.
C3_BatchIsSnapshot ==
    running =>
        /\ \A i \in TraceIdx : trace[i].id \in Ids(batch)
        /\ Ids(batch) \cap Ids(coordinatedRenderings) = {}
        /\ \A i \in TraceIdx : trace[i].id \notin Ids(coordinatedRenderings)
        /\ \A i \in PendingIdx : frameRequests[coordinatedRenderings[i].window] > 0
        /\ phase > PrepareRenderText => \A b \in BatchIdx : Received(b, PrepareRenderText, Len(trace) + 1)

\* C3 witness: a callback has made all its calls while a rendering registered during it is pending.
C3_Witness ==
    /\ running /\ phase = Returning
    /\ Len(batch) >= 1 /\ Len(trace) >= 2
    /\ Len(coordinatedRenderings) >= 1

\* C4: in every reachable state each window has at most one outstanding frame callback.
C4_OneHandlePerWindow ==
    \A w \in Windows : frameRequests[w] <= 1

\* C4 witness: while the callback of a window runs, two views have registered again for that
\* window, whose runner was deleted when it fired: one new callback is outstanding for it.
C4_Witness ==
    /\ running
    /\ Len(coordinatedRenderings) = 2
    /\ coordinatedRenderings[1].window = firedWindow
    /\ coordinatedRenderings[2].window = firedWindow
    /\ frameRequests[firedWindow] = 1

FrameFires == ~running /\ running'
NewlyCancelled == cancelled' \ cancelled
NoFrames(requests) == \A w \in Windows : requests[w] = 0
PendingIn(list, w) == \E k \in 1..Len(list) : list[k].window = w

C10_ThrowIsIsolated ==
    /\ errorSink = (IF lastOutcome = "threw" THEN 1 ELSE 0)
    /\ (running /\ lastOutcome = "threw" /\ trace[Len(trace)].phase = RenderText) =>
           \A b \in BatchIdx : batch[b].id = trace[Len(trace)].id => datas[b] = "null"
    /\ (running /\ phase = Returning) =>
           \A b \in BatchIdx : \A ph \in PrepareRenderText..Render :
               Due(b, ph) => Received(b, ph, Len(trace) + 1)

\* C10 witness: the prepareRenderText call of the first of two renderings threw, and the
\* callback is about to call prepareRenderText of the second.
C10_Witness ==
    /\ running /\ ~inCall
    /\ Len(batch) = 2
    /\ phase = PrepareRenderText /\ idx = 2
    /\ lastOutcome = "threw" /\ errorSink = 1
    /\ ~isDisposed[batch[1].view]

\* ------------------------------------------- claims about one view's parts
CallsOf(m) == {last.calls[i].p : i \in {j \in 1..Len(last.calls) : last.calls[j].m = m}}
PartsOf(list) == {list[i] : i \in 1..Len(list)}

\* The latest step was the body of phase ph of TheView's rendering inside a frame callback.
PhaseRan(ph) == last.op = "phase" /\ last.phases = <<ph>>

\* C11: when a view part throws during prepareRender, the other view parts of the batch,
\* those later in the same view's list included, still receive their prepareRender, and the
\* error sink receives exactly one report for the throw.
C11_PrepareRenderThrowSparesLaterParts ==
    PhaseRan(PrepareRender) =>
        /\ PartsOf(last.parts) \subseteq CallsOf("prepareRender")
        /\ last.reports = IF last.result = "threw" THEN 1 ELSE 0

\* The latest step was a call of render(now, everything) on TheView.
RenderCalled(now, everything) == last.op = "render" /\ last.now = now /\ last.everything = everything

AllPhases == <<PrepareRenderText, RenderText, PrepareRender, Render>>

\* C12 as stated: render(true, true) runs all four phases over every view part before it
\* returns, in every state of the view, a detached root included.
C12_SyncRenderEverythingRunsAllPhases ==
    RenderCalled(TRUE, TRUE) => (last.phases = AllPhases /\ PartsOf(last.parts) = Parts)

\* C12 (amended): render(true, true) runs prepareRenderText and renderText before it returns
\* in every state of the view; prepareRender and render run as well, over every view part,
\* exactly when renderText returned data. With a detached root renderText yields null and the
\* two later phases do not run; with an attached root it yields null only by throwing.
C12_SyncRenderEverything ==
    RenderCalled(TRUE, TRUE) =>
        /\ last.phases = IF last.result = "ok" THEN AllPhases
                         ELSE <<PrepareRenderText, RenderText>>
        /\ last.result = "ok" => PartsOf(last.parts) = Parts
        /\ ~isConnected <=> last.result = "null"
        /\ ~isConnected => last.calls = <<>>

C12_Witness ==
    /\ RenderCalled(TRUE, TRUE)
    /\ last.phases = AllPhases
    /\ CallsOf("render") = Parts
    /\ renderAnimationFrame[TheView] # Null

RenderingsOf(v, list) == {i \in 1..Len(list) : list[i].view = v}

\* The running callback holds a rendering of view v whose prepareRenderText has not completed.
InFlight(v) ==
    /\ running
    /\ phase = PrepareRenderText
    /\ \E i \in idx..Len(batch) : batch[i].view = v

\* A call of render(false, everything) on the live view has just returned.
RenderLaterReturned == last.op = "render" /\ ~last.now /\ last.live

\* C14 as stated: render(false, everything) runs no phase, and when it returns the view has
\* exactly one participant in the coordinator's pending list; with `everything` the view
\* lines and every part have been forced dirty.
C14_RenderLaterLeavesOnePending ==
    [][RenderLaterReturned' =>
           /\ last'.phases = <<>> /\ last'.calls = <<>>
           /\ Cardinality(RenderingsOf(TheView, coordinatedRenderings')) = 1
           /\ last'.everything => (partDirty' = Parts /\ linesDirty')]_vars

\* C14 (amended): render(false, everything) on a live view runs no phase; when it returns the
\* view's pending reference names exactly one rendering, newly registered if the reference
\* was null and the existing one otherwise, and that rendering is either in the pending list
\* or in the running batch with its prepareRenderText not yet completed; with `everything`
\* the view lines and every part have been forced dirty.
C14_RenderLaterDefers ==
    [][RenderLaterReturned' =>
           /\ last'.phases = <<>> /\ last'.calls = <<>> /\ last'.raised = "none"
           /\ renderAnimationFrame'[TheView] # Null
           /\ IF renderAnimationFrame[TheView] = Null
              THEN renderAnimationFrame'[TheView] = nextId /\ nextId' = nextId + 1
              ELSE UNCHANGED <<coordVars, renderAnimationFrame, nextId>>
           /\ Cardinality(RenderingsOf(TheView, coordinatedRenderings'))
                 + (IF InFlight(TheView)' THEN 1 ELSE 0) = 1
           /\ \/ renderAnimationFrame'[TheView] \in Ids(coordinatedRenderings')
              \/ InFlight(TheView)' /\ renderAnimationFrame'[TheView] \in Ids(batch')
           /\ last'.everything => (partDirty' = Parts /\ linesDirty')]_vars

C14_Witness ==
    /\ RenderLaterReturned
    /\ last.everything
    /\ InFlight(TheView)
    /\ coordinatedRenderings = <<>>
    /\ partDirty = Parts

\* The calls that consist of, or end in, _scheduleRender().
SchedulingOps == {"handleEvents", "layoutOverlayWidget", "render"}

\* C15: _scheduleRender() on a disposed view raises BugIndicatingError to its caller and
\* registers nothing: the coordinator and the view's pending reference are unchanged.
C15_ScheduleAfterDisposeRaises ==
    /\ [](last.op = "handleEvents" /\ ~last.live => last.raised = "BugIndicatingError")
    /\ [][(last'.op \in SchedulingOps /\ ~last'.now /\ isDisposed[TheView]) =>
              /\ last'.raised \in {"none", "BugIndicatingError"}
              /\ UNCHANGED coordVars
              /\ UNCHANGED <<renderAnimationFrame, nextId, cancelled>>]_vars

C15_Witness ==
    /\ last.op = "handleEvents"
    /\ last.raised = "BugIndicatingError"
    /\ isDisposed[TheView]
    /\ running

\* C16: after dispose(), any other public method (render(now, everything) with either value
\* of now, handleEvents, the widget layout APIs) fails fatally instead of silently doing
\* or skipping work.
C16_AnyCallAfterDisposeRaises ==
    (last.op \in {"render", "handleEvents", "layoutOverlayWidget"} /\ ~last.live) =>
        last.raised = "BugIndicatingError"

\* C17: dispose() is idempotent: a second call leaves the view, its parts and the coordinator
\* as they are, cancels nothing again, and no view part nor the view lines is disposed a
\* second time.
C17_SecondDisposeDisposesNoPart ==
    (last.op = "dispose" /\ ~last.live) => CallsOf("dispose") = {}

\* C18: when the view's root is detached as the frame callback reaches its renderText, the
\* call yields null without calling the view lines or any view part and without a report to
\* the error sink, and the callback makes no prepareRender or render call for the rendering.
C18_DetachedRootRendersNothing ==
    /\ (PhaseRan(RenderText) /\ ~isConnected) =>
           /\ last.result = "null" /\ last.calls = <<>> /\ last.reports = 0
           /\ lastOutcome = "null" /\ errorSink = 0
           /\ \A i \in BatchIdx : batch[i].view = TheView => datas[i] = "null"
    /\ \A i \in BatchIdx : datas[i] = "null" =>
           ~\E t \in TraceIdx : trace[t].id = batch[i].id /\ trace[t].phase >= PrepareRender

C18_Witness ==
    /\ PhaseRan(RenderText)
    /\ ~isConnected
    /\ partDirty = Parts
    /\ linesDirty
    /\ phase = Returning

\* The ids of the renderings called in phase ph, in the order of the calls.
RECURSIVE IdsCalled(_, _)
IdsCalled(ph, t) ==
    IF t > Len(trace) THEN <<>>
    ELSE (IF trace[t].phase = ph THEN <<trace[t].id>> ELSE <<>>) \o IdsCalled(ph, t + 1)

\* The ids of the renderings of the batch that are due phase ph, in batch order.
RECURSIVE IdsDue(_, _)
IdsDue(ph, b) ==
    IF b > Len(batch) THEN <<>>
    ELSE (IF Due(b, ph) THEN <<batch[b].id>> ELSE <<>>) \o IdsDue(ph, b + 1)

C20_HandleEventsSchedules ==
    [][(last'.op = "handleEvents" /\ last'.live) =>
           /\ last'.raised = "none"
           /\ renderAnimationFrame'[TheView] # Null
           /\ \/ renderAnimationFrame'[TheView] \in Ids(coordinatedRenderings')
              \/ InFlight(TheView)' /\ renderAnimationFrame'[TheView] \in Ids(batch')]_vars

C20_Witness ==
    /\ last.op = "handleEvents"
    /\ last.live
    /\ ~shouldRecomputeGlyphMarginLanes
    /\ renderAnimationFrame[TheView] \in Ids(coordinatedRenderings)
    /\ running /\ phase = Render

\* ------------------------------------- claims about the scheduling entry points
AllWidgetApis == WidgetApis \cup {"layoutOverlayWidget"}

\* The step is a call of the widget API `api` in which setWidgetPosition returned s.
WidgetApiCalled(api, s) ==
    IF api = "layoutOverlayWidget" THEN LayoutOverlayWidget(s)
    ELSE s \in PositionChanged(api) /\ WidgetApi(api, s)

\* C21 as stated: every widget API of the view ends in a call of _scheduleRender(), for
\* every input.
C21_EveryWidgetApiSchedules ==
    last.op \in AllWidgetApis => last.scheduled

\* C21 (amended): the add and remove APIs and layoutContentWidget always end in a call of
\* _scheduleRender(); layoutOverlayWidget and layoutGlyphMarginWidget call it exactly when
\* the widget's position changed, and otherwise return having touched neither the
\* coordinator, the pending reference nor the glyph margin flag. After a call that reached
\* _scheduleRender() a live view has a rendering pending.
C21_WidgetApisSchedule ==
    [][\A api \in AllWidgetApis, s \in BOOLEAN :
           WidgetApiCalled(api, s) =>
               /\ last'.op = api
               /\ last'.scheduled <=>
                      (api \notin {"layoutOverlayWidget", "layoutGlyphMarginWidget"} \/ s)
               /\ (last'.scheduled /\ last'.live) =>
                      (renderAnimationFrame'[TheView] # Null /\ last'.raised = "none")
               /\ ~last'.scheduled =>
                      /\ UNCHANGED <<coordVars, renderAnimationFrame, shouldRecomputeGlyphMarginLanes>>
                      /\ last'.raised = "none"]_vars

C21_Witness ==
    /\ last.op = "layoutGlyphMarginWidget"
    /\ last.live
    /\ ~last.scheduled
    /\ renderAnimationFrame[TheView] = Null
    /\ nextId > 1

\* ------------------------------------------------ claims about the batch
\* Position in the batch of the rendering the latest phase call was made on.
LatestCalled == CHOOSE b \in BatchIdx : batch[b].id = trace[Len(trace)].id

\* C22: in a frame callback a rendering is called for prepareRender and render if and only
\* if its renderText returned data in that callback: a rendering whose renderText returned
\* null or threw gets neither call, and one with data gets both, render also when its
\* prepareRender threw.
C22_LaterPhasesIffData ==
    /\ \A t \in TraceIdx : trace[t].phase >= PrepareRender =>
           \E b \in BatchIdx : batch[b].id = trace[t].id /\ datas[b] = "data"
    /\ (running /\ phase = Returning) =>
           \A b \in BatchIdx : datas[b] = "data" =>
               /\ Received(b, PrepareRender, Len(trace) + 1)
               /\ Received(b, Render, Len(trace) + 1)
    /\ (running /\ phase = Render) =>
           \A b \in BatchIdx : datas[b] = "data" => Received(b, PrepareRender, Len(trace) + 1)
    /\ (running /\ trace # <<>> /\ ~inCall /\ trace[Len(trace)].phase = RenderText) =>
           (datas[LatestCalled] = "data" <=> lastOutcome = "ok")

C22_Witness ==
    /\ running /\ ~inCall
    /\ Len(batch) = 2
    /\ datas = <<"data", "null">>
    /\ lastOutcome = "threw"
    /\ trace[Len(trace)].phase = PrepareRender
    /\ phase = Render /\ idx = 1

\* ------------------------------------------------ one view's frames, throwers recorded
\* The frames of TheView with the parts that threw in the running callback on record: the
\* view is scheduled by handleEvents, its root node and the dirty state of its parts change
\* at will, and its frames run phase by phase.
ViewEndCallRecorded == ViewPhaseEnd(TRUE)

NextFrame ==
    \/ \E a \in BOOLEAN : HandleEvents(a)
    \/ \E c \in BOOLEAN : SetConnected(c)
    \/ \E p \in Parts : PartInvalidated(p)
    \/ LinesInvalidated
    \/ FrameFire(TheWindow)
    \/ BeginCall
    \/ ViewEndCallRecorded
    \/ FrameReturn

SpecFrame == Init /\ [][NextFrame]_vars

\* C23: a view part that threw during a phase of a frame callback gets no visual update in
\* that callback: the render phase does not acknowledge it with onDidRender and it is still
\* dirty after the render phase, so the next frame includes it again.
C23_ThrowingPartStaysDirty ==
    PhaseRan(Render) =>
        \A p \in threwInFrame : p \notin CallsOf("onDidRender") /\ p \in partDirty

C25_CallbackBounded ==
    /\ [](running =>
            /\ \A i, j \in TraceIdx :
                   (trace[i].id = trace[j].id /\ trace[i].phase = trace[j].phase) => i = j
            /\ \A i \in TraceIdx :
                   trace[i].id \in Ids(batch) /\ trace[i].phase \in PrepareRenderText..Render
            /\ Len(trace) <= 4 * Len(batch))
    /\ [][(running /\ running') => batch' = batch]_vars

\* C25 witness: the view of the batch's only rendering registered again while the callback
\* ran, and the callback is past its last loop after four calls.
C25_Witness ==
    /\ running /\ phase = Returning
    /\ Len(batch) = 1 /\ Len(trace) = 4
    /\ \E i \in PendingIdx : coordinatedRenderings[i].view = batch[1].view

\* render(ctx) followed by onDidRender() for each part of the list, in list order.
RenderCallsFor(parts) ==
    [i \in 1..(2 * Len(parts)) |->
        IF i % 2 = 1 THEN PartCall("render", parts[(i + 1) \div 2])
                     ELSE PartCall("onDidRender", parts[i \div 2])]

\* C26: the render phase of a view visits exactly the parts its renderText collected in
\* that frame, in list order, each render(ctx) immediately followed by onDidRender().
C26_RenderVisitsCollectedParts ==
    PhaseRan(Render) => last.calls = RenderCallsFor(dataParts)

Known == Ids(coordinatedRenderings) \cup Ids(batch) \cup cancelled
CallsTo(id, ph) == {i \in TraceIdx : trace[i].id = id /\ trace[i].phase = ph}

\* C27: a rendering is processed by at most one frame callback. It is registered under a
\* fresh id, enters a batch only from the pending list, which it leaves for good when it is
\* taken into a batch or cancelled, and is never both cancelled and in a batch; in its batch
\* it gets each phase at most once.
C27_AtMostOneFrame ==
    /\ [](/\ Ids(coordinatedRenderings) \cap Ids(batch) = {}
          /\ cancelled \cap (Ids(coordinatedRenderings) \cup Ids(batch)) = {}
          /\ \A id \in Known : id < nextId
          /\ Cardinality(Ids(coordinatedRenderings)) = Len(coordinatedRenderings)
          /\ Cardinality(Ids(batch)) = Len(batch)
          /\ \A id \in Ids(batch) : \A ph \in PrepareRenderText..Render :
                 Cardinality(CallsTo(id, ph)) <= 1)
    /\ [][/\ nextId' >= nextId
          /\ Ids(coordinatedRenderings') \ Ids(coordinatedRenderings) \subseteq {nextId}
          /\ Ids(batch') \ Ids(batch) \subseteq Ids(coordinatedRenderings)
          /\ cancelled' \ cancelled \subseteq Ids(coordinatedRenderings)
          /\ cancelled \subseteq cancelled']_vars

\* C27 witness: the second rendering ever registered has had its four calls as the only one
\* of its batch, the first one having been processed, not cancelled, by an earlier callback.
C27_Witness ==
    /\ running /\ phase = Returning
    /\ Len(batch) = 1 /\ batch[1].id = 2
    /\ Len(trace) = 4
    /\ cancelled = {}
    /\ coordinatedRenderings = <<>>

\* The latest step ran a prepareRenderText body, in a frame callback or in a synchronous flush.
PrepareTextRan == last.phases # <<>> /\ last.phases[1] = PrepareRenderText

\* The calls that set _shouldRecomputeGlyphMarginLanes.
FlagRaisers == {"handleEvents", "addGlyphMarginWidget", "layoutGlyphMarginWidget", "removeGlyphMarginWidget"}

\* C28: the glyph margin lanes are recomputed only by a prepareRenderText body that finds the
\* recompute flag set, and that body clears the flag; the flag is set only by handleEvents
\* (a decorations change affecting the glyph margin) and by adding, laying out or removing a
\* glyph margin widget, so a later prepareRenderText without such a call in between
\* recomputes nothing.
C28_LanesRecomputedOnFlag ==
    [][/\ last'.computed => (PrepareTextRan' /\ shouldRecomputeGlyphMarginLanes)
       /\ PrepareTextRan' =>
              /\ last'.computed <=> shouldRecomputeGlyphMarginLanes
              /\ ~shouldRecomputeGlyphMarginLanes'
       /\ (~shouldRecomputeGlyphMarginLanes /\ shouldRecomputeGlyphMarginLanes') =>
              last'.op \in FlagRaisers]_vars

\* C28 witness: the prepareRenderText body of a frame callback recomputed the lanes and
\* left the flag cleared.
C28_Witness ==
    /\ PhaseRan(PrepareRenderText)
    /\ last.computed
    /\ ~shouldRecomputeGlyphMarginLanes

\* C29: every rendering in the pending list has a frame callback outstanding for its own
\* window, registered in the coordinator's map of runners.
C29_PendingHasOwnWindowFrame ==
    \A i \in PendingIdx :
        /\ frameRequests[coordinatedRenderings[i].window] > 0
        /\ coordinatedRenderings[i].window \in animationFrameRunners

\* C29 witness: after an earlier rendering has been processed or cancelled, renderings of two
\* windows are pending, each window with its own frame callback outstanding.
C29_Witness ==
    /\ ~running
    /\ nextId > 3
    /\ Len(coordinatedRenderings) = 2
    /\ coordinatedRenderings[1].window # coordinatedRenderings[2].window
    /\ \A i \in PendingIdx : frameRequests[coordinatedRenderings[i].window] = 1

RenderingIds == 1..MaxRenderings

\* The rendering `id` has had its prepareRenderText and renderText calls in the running callback.
TextPhasesReceived(id) ==
    /\ CallsTo(id, PrepareRenderText) # {}
    /\ CallsTo(id, RenderText) # {}

\* C30: when frame callbacks are eventually run and run to their end, every rendering in the
\* pending list is eventually cancelled or gets its prepareRenderText and renderText calls.
C30_PendingEventuallyProcessed ==
    \A id \in RenderingIds :
        (id \in Ids(coordinatedRenderings)) ~> (id \in cancelled \/ TextPhasesReceived(id))

\* C30 witness: the callback of one window has made the two text calls of a rendering
\* registered for another window.
C30_Witness ==
    /\ running
    /\ \E b \in BatchIdx :
           /\ batch[b].window # firedWindow
           /\ TextPhasesReceived(batch[b].id)

\* The view of the rendering `id` has been disposed, while the rendering was pending (which
\* cancelled it) or while it was in the running batch.
ViewDisposedOf(id) ==
    \/ id \in cancelled
    \/ \E b \in BatchIdx : batch[b].id = id /\ isDisposed[batch[b].view]

\* C31: a scheduleRender() call on a live view leaves the view's pending reference naming a
\* rendering whose renderText has not been called yet, whether the call registered the
\* rendering or found it pending or inside its prepareRenderText; and when frame callbacks
\* are eventually run and run to their end, that rendering's renderText is called later,
\* unless the view is disposed.
C31_ScheduleLeadsToRenderText ==
    /\ [][\A v \in Views : nextId' > nextId /\ renderAnimationFrame'[v] # renderAnimationFrame[v] =>
              renderAnimationFrame'[v] = nextId]_vars
    /\ [](\A v \in Views : renderAnimationFrame[v] # Null =>
              CallsTo(renderAnimationFrame[v], RenderText) = {})
    /\ \A id \in RenderingIds :
           (\E v \in Views : renderAnimationFrame[v] = id) ~>
               (ViewDisposedOf(id) \/ CallsTo(id, RenderText) # {})

\* C31 witness: the rendering of a live view is inside its prepareRenderText with the view's
\* pending reference still naming it, the state in which a re-entrant scheduleRender() of
\* that view changes nothing, while the other view has a rendering pending.
C31_Witness ==
    /\ running /\ inCall
    /\ phase = PrepareRenderText
    /\ ~isDisposed[batch[idx].view]
    /\ renderAnimationFrame[batch[idx].view] = batch[idx].id
    /\ Len(coordinatedRenderings) = 1

\* The ids of the renderings of view v that are pending, or are in the running batch with
\* their prepareRenderText not over yet.
Unprepared(v) ==
    {coordinatedRenderings[i].id : i \in RenderingsOf(v, coordinatedRenderings)}
        \cup (IF running /\ phase = PrepareRenderText
              THEN {batch[i].id : i \in {j \in idx..Len(batch) : batch[j].view = v}}
              ELSE {})

\* C32: the pending reference of a live view is non-null exactly when a rendering of the
\* view is in the pending list or is in the running batch with its prepareRenderText not
\* over yet, and it names that rendering; this holds after a prepareRenderText that threw
\* as well, so a live view whose reference is set always has a rendering that a frame
\* callback is still to prepare.
C32_PendingReferenceExact ==
    \A v \in Views :
        ~isDisposed[v] =>
            IF renderAnimationFrame[v] = Null
            THEN Unprepared(v) = {}
            ELSE Unprepared(v) = {renderAnimationFrame[v]}

\* C32 witness: the prepareRenderText body of a live view's rendering threw, and the view's
\* pending reference is null.
C32_Witness ==
    /\ running /\ ~inCall
    /\ lastOutcome = "threw"
    /\ trace[Len(trace)].phase = PrepareRenderText
    /\ ~isDisposed[trace[Len(trace)].view]
    /\ renderAnimationFrame[trace[Len(trace)].view] = Null

\* A phase call is made: the callback enters a wrapper.
CallMade == Len(trace') = Len(trace) + 1

\* C33: disposing a view while its rendering is in the running batch changes neither the
\* batch nor the course of the callback; every call the callback then makes on that
\* rendering throws in the wrapper, before the phase body, and is reported to the error sink
\* once, so no phase body of the view starts after the dispose; and at the end of the
\* callback every rendering of the batch has had all the calls it is due.
C33_DisposedInBatch ==
    /\ [][\A v \in Views :
              (running /\ ~isDisposed[v] /\ isDisposed'[v] /\ RenderingsOf(v, batch) # {}) =>
                  /\ UNCHANGED frameVars
                  /\ renderAnimationFrame[v] \in Ids(batch) \cup {Null} => UNCHANGED coordVars]_vars
    /\ [][(CallMade /\ isDisposed[batch[idx].view]) =>
              /\ ~inCall'
              /\ lastOutcome' = "threw"
              /\ errorSink' = 1]_vars
    /\ [][(~inCall /\ inCall') => ~isDisposed[batch[idx].view]]_vars
    /\ []((running /\ phase = Returning) =>
              \A b \in BatchIdx : \A ph \in PrepareRenderText..Render :
                  Due(b, ph) => Received(b, ph, Len(trace) + 1))

\* C33 witness: the second view of a batch of two was disposed during the callback; its
\* renderText call threw, so it got the two text calls only, and the first view's rendering
\* has had all four calls.
C33_Witness ==
    /\ running /\ phase = Returning
    /\ Len(batch) = 2
    /\ ~isDisposed[batch[1].view] /\ isDisposed[batch[2].view]
    /\ datas = <<"data", "null">>
    /\ Len(trace) = 6
    /\ cancelled = {}

\* The phase in which the call c on a view part or on the view lines is made.
PhaseOfCall(c) ==
    IF c.p = ViewLines THEN RenderText
    ELSE IF c.m = "prepareRender" THEN PrepareRender
    ELSE Render

\* The prepareRender loop, the render loop of the latest step stopped before its end.
PrepareCutShort == CallsOf("prepareRender") # PartsOf(last.parts)
RenderCutShort == CallsOf("onDidRender") \ {ViewLines} # PartsOf(last.parts)

\* C34: the synchronous flush runs prepareRenderText, then renderText, and then prepareRender
\* and render exactly when renderText returned data; the calls on the parts are made in the
\* order of the phases; whatever throws is reported to the error sink and nothing is raised
\* to the caller; and render runs from the first collected part on also when prepareRender
\* threw.
C34_SyncFlushCatchesAll ==
    (last.op = "render" /\ last.now) =>
        /\ last.raised = "none"
        /\ last.phases = IF last.result = "ok" THEN AllPhases ELSE <<PrepareRenderText, RenderText>>
        /\ \A i, j \in 1..Len(last.calls) :
               i < j => PhaseOfCall(last.calls[i]) <= PhaseOfCall(last.calls[j])
        /\ last.result = "threw" => last.reports = 1
        /\ last.result = "null" => last.reports = 0
        /\ last.result = "ok" =>
               /\ last.reports \in 0..2
               /\ last.reports >= (IF PrepareCutShort THEN 1 ELSE 0) + (IF RenderCutShort THEN 1 ELSE 0)
               /\ last.parts # <<>> =>
                      \E i \in 1..Len(last.calls) : last.calls[i] = PartCall("render", last.parts[1])

\* C34 witness: in a synchronous flush over two parts the first part's prepareRender threw,
\* which was reported, and render and onDidRender were still called for both parts.
C34_Witness ==
    /\ last.op = "render" /\ last.now
    /\ last.parts = <<1, 2>>
    /\ CallsOf("prepareRender") = {1}
    /\ CallsOf("onDidRender") \ {ViewLines} = {1, 2}
    /\ last.reports = 1
    /\ last.raised = "none"

\* The view lines and every view part are clean.
NothingDirty == ~linesDirty /\ partDirty = {}

\* C35: when the renderText of a frame callback, or of a synchronous flush that forces
\* nothing, finds the root attached, the view lines clean and no view part dirty, it returns
\* null right after collecting the (empty) list of parts: neither the view lines nor any
\* view part is called, nothing is reported, everything stays clean, and the two later
\* phases do not run for the view.
C35_NothingDirtyRendersNothing ==
    [][(/\ \/ last'.op = "phase" /\ last'.phases = <<RenderText>>
           \/ last'.op = "render" /\ last'.now /\ ~last'.everything
        /\ isConnected
        /\ NothingDirty) =>
            /\ last'.result = "null"
            /\ last'.calls = <<>>
            /\ last'.parts = <<>>
            /\ last'.collections = 1
            /\ last'.reports = 0
            /\ NothingDirty'
            /\ last'.op = "render" => last'.phases = <<PrepareRenderText, RenderText>>
            /\ last'.op = "phase" =>
                   /\ datas'[idx] = "null"
                   /\ phase' = Returning]_vars

\* C35 witness: the renderText of a frame callback has returned null for an attached view
\* with nothing dirty.
C35_Witness ==
    /\ PhaseRan(RenderText)
    /\ isConnected
    /\ NothingDirty
    /\ last.result = "null"
    /\ last.collections = 1
    /\ phase = Returning

====
